---------------------------- MODULE Spec2Model ----------------------------
(***************************************************************************)
(* PDF to audiobook converter (src/app.py): the command line orchestrator  *)
(* main(), the parameter validator validate_voice_params(), the text       *)
(* extractor extract_clean_text() and the streaming synthesis session      *)
(* stream_audio(), as one sequential state machine.                        *)
(*                                                                         *)
(* Strings are sequences of one-character strings, file contents are       *)
(* sequences of bytes.  The remote stream, the PDF on disk and the         *)
(* operating system (open) are the environment: their answers are drawn    *)
(* with \E at the step that asks for them.                                 *)
(***************************************************************************)
EXTENDS Integers, Sequences, FiniteSets, TLC

VARIABLES
    pc,           \* position of the single task in main() / stream_audio()
    mode,         \* "list" (--list-voices) or "convert" (positional input)
    rate,         \* args.rate
    volume,       \* args.volume
    pitch,        \* args.pitch
    verdict,      \* outcome of validate_voice_params: "pending", "ok" or the parameter named
    text,         \* clean_text returned by extract_clean_text
    extracted,    \* "pending", "ok" (a string was returned) or "error" (it raised)
    disk,         \* the output path on disk: [exists, data]
    disk0,        \* the output path as it was when the program started
    handle,       \* the handle f of stream_audio: "none", "open", "closed"
    total_bytes,  \* the accumulated byte counter of stream_audio
    received,     \* chunks consumed from communicate.stream(), in arrival order
    fault,        \* the exception that ended the session, "none" if none
    sess,         \* session state: Idle, Connecting, Streaming, Finalized, Failed
    success,      \* return value of stream_audio: "none", TRUE or FALSE as a string
    netCalls,     \* calls made to the remote service
    stages,       \* the stages main() has started, in order
    exitCode      \* process exit code, -1 while running

vars == << pc, mode, rate, volume, pitch, verdict, text, extracted, disk, disk0,
           handle, total_bytes, received, fault, sess, success,
           netCalls, stages, exitCode >>

-----------------------------------------------------------------------------
(* Bounds *)

\* longest run of digits in a generated parameter string
MaxDigits == 2
\* most chunks a stream delivers before it ends or faults
MaxChunks == 3
\* most pages of a generated PDF
MaxPages == 2

-----------------------------------------------------------------------------
(* Sequences *)

RECURSIVE Flatten(_)
Flatten(ss) == IF ss = << >> THEN << >> ELSE Head(ss) \o Flatten(Tail(ss))

RECURSIVE Repeat(_, _)
Repeat(c, n) == IF n = 0 THEN << >> ELSE << c >> \o Repeat(c, n - 1)

RECURSIVE SumLen(_)
SumLen(ss) == IF ss = << >> THEN 0 ELSE Len(Head(ss)) + SumLen(Tail(ss))

-----------------------------------------------------------------------------
(* validate_voice_params: the patterns and re.match *)

SignClass == {"+", "-"}

DigitClass == {"0", "1", "2", "3", "4", "5", "6", "7", "8", "9"}

\* the literal that follows the digits in each pattern
PatternSuffix(param) == IF param = "pitch" THEN << "H", "z" >> ELSE << "%" >>

\* the literal lit stands in s from position p on
HasLiteral(s, p, lit) ==
    /\ p + Len(lit) - 1 <= Len(s)
    /\ \A i \in 1..Len(lit) : s[p + i - 1] = lit[i]

\* "$" without re.MULTILINE: the end of the string, or just before a newline
\* that is the last character of the string
DollarAt(s, p) ==
    \/ p = Len(s) + 1
    \/ p = Len(s) /\ s[p] = "\n"

\* re.match(r"^[+-]\d+<suffix>$", s): a sign at position 1, n >= 1 digits,
\* the suffix, then "$"
re_match(suffix, s) ==
    /\ Len(s) >= 1
    /\ s[1] \in SignClass
    /\ \E n \in 1..Len(s) :
          /\ n + 1 <= Len(s)
          /\ \A i \in 2..(n + 1) : s[i] \in DigitClass
          /\ HasLiteral(s, n + 2, suffix)
          /\ DollarAt(s, n + 2 + Len(suffix))

\* The for loop over rate, volume, pitch: the first parameter whose value does
\* not match is named in the ValueError; "ok" when the function returns None.
validate_voice_params(r, v, p) ==
    IF ~re_match(PatternSuffix("rate"), r) THEN "rate"
    ELSE IF ~re_match(PatternSuffix("volume"), v) THEN "volume"
    ELSE IF ~re_match(PatternSuffix("pitch"), p) THEN "pitch"
    ELSE "ok"

-----------------------------------------------------------------------------
(* extract_clean_text *)

\* the characters of the class \s that occur in the generated pages
Whitespace == {" ", "\n", "\t"}

\* edge_tts remove_incompatible_characters: control characters become spaces
\* ("^A" stands for the control character U+0001)
remove_incompatible_characters(raw) ==
    [i \in 1..Len(raw) |-> IF raw[i] = "^A" THEN " " ELSE raw[i]]

\* text_buffer: the cleaned text of every page whose extract_text() is truthy
RECURSIVE TextBuffer(_)
TextBuffer(pages) ==
    IF pages = << >> THEN << >>
    ELSE IF Head(pages) = << >> THEN TextBuffer(Tail(pages))
    ELSE << remove_incompatible_characters(Head(pages)) >> \o TextBuffer(Tail(pages))

\* " ".join(text_buffer)
RECURSIVE Join(_)
Join(parts) ==
    IF parts = << >> THEN << >>
    ELSE IF Len(parts) = 1 THEN Head(parts)
    ELSE Head(parts) \o << " " >> \o Join(Tail(parts))

RECURSIVE DropLeadingSpace(_)
DropLeadingSpace(s) ==
    IF s # << >> /\ Head(s) \in Whitespace THEN DropLeadingSpace(Tail(s)) ELSE s

\* re.sub(r'\s+', ' ', s): every maximal run of whitespace becomes one space
RECURSIVE CollapseSpace(_)
CollapseSpace(s) ==
    IF s = << >> THEN << >>
    ELSE IF Head(s) \in Whitespace
         THEN << " " >> \o CollapseSpace(DropLeadingSpace(Tail(s)))
         ELSE << Head(s) >> \o CollapseSpace(Tail(s))

RECURSIVE DropTrailingSpace(_)
DropTrailingSpace(s) ==
    IF s # << >> /\ s[Len(s)] \in Whitespace
    THEN DropTrailingSpace(SubSeq(s, 1, Len(s) - 1))
    ELSE s

\* str.strip()
Strip(s) == DropTrailingSpace(DropLeadingSpace(s))

\* The whole function on a PDF [exists, readable, pages]: the exception it
\* raises ("none" when it returns) and the string it returns.
extract_clean_text(pdf) ==
    IF ~pdf.exists THEN [raised |-> "FileNotFoundError", text |-> << >>]
    ELSE IF ~pdf.readable THEN [raised |-> "Exception", text |-> << >>]
    ELSE IF Len(pdf.pages) = 0 THEN [raised |-> "ValueError", text |-> << >>]
    ELSE [raised |-> "none",
          text   |-> Strip(CollapseSpace(Join(TextBuffer(pdf.pages))))]

-----------------------------------------------------------------------------
(* Inputs *)

\* the command lines of convert mode that are explored end to end:
\* the defaults, a trailing newline, and one bad value per parameter
ArgSamples ==
    { << << "-", "1", "5", "%" >>, << "+", "0", "%" >>, << "+", "0", "H", "z" >> >>,
      << << "+", "1", "0", "%", "\n" >>, << "+", "0", "%" >>, << "+", "0", "H", "z" >> >>,
      << << "1", "0", "%" >>, << "+", "0", "%" >>, << "+", "0", "H", "z" >> >>,
      << << "+", "0", "%" >>, << "+", "0" >>, << "+", "0", "H", "z" >> >>,
      << << "+", "0", "%" >>, << "+", "0", "%" >>, << "+", "5", "%" >> >> }

\* parameter strings for the validator alone: an optional sign, a run of
\* digits, an optional suffix, an optional trailing character
ParamStrings ==
    { sign \o Repeat("1", n) \o suffix \o trail :
        sign \in {<< >>, << "+" >>, << "-" >>},
        n \in 0..MaxDigits,
        suffix \in {<< >>, << "%" >>, << "H", "z" >>},
        trail \in {<< >>, << "\n" >>, << "x" >>} }

\* what extract_text() returns for a page
RawPages == { << >>, << " ", "\n" >>, << "^A", "a", " " >> }

Pdfs ==
    { [exists |-> FALSE, readable |-> FALSE, pages |-> << >>],
      [exists |-> TRUE, readable |-> FALSE, pages |-> << >>] }
    \cup { [exists |-> TRUE, readable |-> TRUE, pages |-> ps] :
             ps \in UNION { [1..n -> RawPages] : n \in 0..MaxPages } }

Payloads == { << "x" >>, << "y", "z" >> }

\* a chunk of communicate.stream(): audio with its data, an advisory error,
\* or metadata (a type that is neither)
Chunks ==
    { [type |-> "audio", data |-> d] : d \in Payloads }
    \cup { [type |-> "error", data |-> << >>],
           [type |-> "WordBoundary", data |-> << >>] }

NetworkFaults == {"NoAudioReceived", "UnexpectedResponse", "WebSocketError"}

NoFile == [exists |-> FALSE, data |-> << >>]

\* the output path before the run: absent, or a file with earlier bytes
OutputStates == { NoFile, [exists |-> TRUE, data |-> << "o" >>],
                  [exists |-> TRUE, data |-> << "o", "o" >>] }

\* the payloads of the audio chunks of a chunk sequence, in order
RECURSIVE AudioData(_)
AudioData(cs) ==
    IF cs = << >> THEN << >>
    ELSE IF Head(cs).type = "audio" THEN << Head(cs).data >> \o AudioData(Tail(cs))
    ELSE AudioData(Tail(cs))

-----------------------------------------------------------------------------
(* Initial state: after parser.parse_args() *)

Idle ==
    /\ verdict = "pending"
    /\ text = << >>
    /\ extracted = "pending"
    /\ disk = disk0
    /\ handle = "none"
    /\ total_bytes = 0
    /\ received = << >>
    /\ fault = "none"
    /\ sess = "Idle"
    /\ success = "none"
    /\ netCalls = 0
    /\ stages = << >>
    /\ exitCode = -1

Init ==
    /\ pc = "parse"
    /\ mode \in {"list", "convert"}
    /\ \E a \in ArgSamples : rate = a[1] /\ volume = a[2] /\ pitch = a[3]
    /\ disk0 \in OutputStates
    /\ Idle

-----------------------------------------------------------------------------
(* main(): list mode, validation, extraction *)

\* lines 210-212: list_available_voices() queries the voice directory, logs
\* any failure itself, and main returns
M_ListVoices ==
    /\ pc = "parse"
    /\ mode = "list"
    /\ netCalls' = netCalls + 1
    /\ stages' = Append(stages, "list")
    /\ pc' = "exit"
    /\ exitCode' = 0
    /\ UNCHANGED << mode, rate, volume, pitch, verdict, text, extracted, disk,
                    disk0, handle, total_bytes, received, fault, sess, success >>

\* Mutant: the ValueError is swallowed and the pipeline goes on
M_Validate_Ignored ==
    /\ pc = "parse"
    /\ mode = "convert"
    /\ verdict' = validate_voice_params(rate, volume, pitch)
    /\ stages' = Append(stages, "validate")
    /\ pc' = "extract"
    /\ exitCode' = exitCode
    /\ UNCHANGED << mode, rate, volume, pitch, text, extracted, disk, disk0,
                    handle, total_bytes, received, fault, sess, success,
                    netCalls >>

\* lines 217-228 and 241-243: a ValueError is logged and the process exits 1,
\* otherwise the configuration is built
M_Validate ==
    /\ pc = "parse"
    /\ mode = "convert"
    /\ verdict' = validate_voice_params(rate, volume, pitch)
    /\ stages' = Append(stages, "validate")
    /\ IF verdict' = "ok"
       THEN pc' = "extract" /\ exitCode' = exitCode
       ELSE pc' = "exit" /\ exitCode' = 1
    /\ UNCHANGED << mode, rate, volume, pitch, text, extracted, disk, disk0,
                    handle, total_bytes, received, fault, sess, success,
                    netCalls >>

\* Mutant: the test "if not clean_text" is missing
M_Extract_NoEmptyCheck ==
    /\ pc = "extract"
    /\ stages' = Append(stages, "extract")
    /\ \E pdf \in Pdfs :
          LET r == extract_clean_text(pdf) IN
          IF r.raised # "none"
          THEN /\ extracted' = "error"
               /\ text' = text
               /\ pc' = "exit"
               /\ exitCode' = 1
          ELSE /\ extracted' = "ok"
               /\ text' = r.text
               /\ pc' = "session"
               /\ exitCode' = exitCode
    /\ UNCHANGED << mode, rate, volume, pitch, verdict, disk, disk0, handle,
                    total_bytes, received, fault, sess, success, netCalls >>

\* lines 230-233 and 241-246: extraction raises (exit 1), returns an empty
\* string (warning, return: exit 0) or returns the text
M_Extract ==
    /\ pc = "extract"
    /\ stages' = Append(stages, "extract")
    /\ \E pdf \in Pdfs :
          LET r == extract_clean_text(pdf) IN
          IF r.raised # "none"
          THEN /\ extracted' = "error"
               /\ text' = text
               /\ pc' = "exit"
               /\ exitCode' = 1
          ELSE /\ extracted' = "ok"
               /\ text' = r.text
               /\ IF r.text = << >>
                  THEN pc' = "exit" /\ exitCode' = 0
                  ELSE pc' = "session" /\ exitCode' = exitCode
    /\ UNCHANGED << mode, rate, volume, pitch, verdict, disk, disk0, handle,
                    total_bytes, received, fault, sess, success, netCalls >>

-----------------------------------------------------------------------------
(* stream_audio() *)

\* Mutant: the file is opened in append mode ("ab")
OpenAppend(d) == [exists |-> TRUE, data |-> IF d.exists THEN d.data ELSE << >>]

\* open(path, "wb"): the file is created, or truncated if it exists
OpenWB(d) == [exists |-> TRUE, data |-> << >>]

\* Mutant: the payload is put in front of what was written before
FileAfter_Prepend(c, data) == IF c.type = "audio" THEN c.data \o data ELSE data

\* f.write(data) for an audio chunk; nothing for any other chunk
FileAfter(c, data) == IF c.type = "audio" THEN data \o c.data ELSE data

\* total_bytes += len(data) for an audio chunk
CountAfter(c, n) == IF c.type = "audio" THEN n + Len(c.data) ELSE n

\* Mutant: the cleanup is missing
Cleanup_Keep(d) == d

\* if config.output_file.exists(): config.output_file.unlink()
\* (unlink() of a file the session itself has just written is taken to succeed)
Cleanup(d) == IF d.exists THEN NoFile ELSE d

\* lines 138-152: the log line "Conectando", the Communicate object, the
\* counter and the clock
\* (the constructor opens no connection and is taken to return)
SA_Connect ==
    /\ pc = "session"
    /\ sess' = "Connecting"
    /\ total_bytes' = 0
    /\ stages' = Append(stages, "session")
    /\ pc' = "open"
    /\ UNCHANGED << mode, rate, volume, pitch, verdict, text, extracted, disk,
                    disk0, handle, received, fault, success, netCalls, exitCode >>

\* line 155 succeeds: the file is open and communicate.stream() is iterated
SA_Open ==
    /\ pc = "open"
    /\ disk' = OpenWB(disk)
    /\ handle' = "open"
    /\ sess' = "Streaming"
    /\ netCalls' = netCalls + 1
    /\ pc' = "stream"
    /\ UNCHANGED << mode, rate, volume, pitch, verdict, text, extracted, disk0,
                    total_bytes, received, fault, success, stages, exitCode >>

\* line 155 raises OSError (no such directory, no permission): lines 183-186
SA_OpenFails ==
    /\ pc = "open"
    /\ fault' = "OSError"
    /\ sess' = "Failed"
    /\ success' = "false"
    /\ pc' = "return"
    /\ UNCHANGED << mode, rate, volume, pitch, verdict, text, extracted, disk,
                    disk0, handle, total_bytes, received, netCalls, stages,
                    exitCode >>

\* Mutant: an error chunk is fatal, the session stops and returns False
SA_Chunk_ErrorAborts ==
    /\ pc = "stream"
    /\ Len(received) < MaxChunks
    /\ \E c \in Chunks :
          /\ received' = Append(received, c)
          /\ disk' = [disk EXCEPT !.data = FileAfter(c, @)]
          /\ total_bytes' = CountAfter(c, total_bytes)
          /\ IF c.type = "error"
             THEN /\ handle' = "closed" /\ sess' = "Failed"
                  /\ success' = "false" /\ pc' = "return"
             ELSE UNCHANGED << handle, sess, success, pc >>
    /\ UNCHANGED << mode, rate, volume, pitch, verdict, text, extracted,
                    disk0, fault, netCalls, stages, exitCode >>

\* lines 157-169: one chunk arrives
SA_Chunk ==
    /\ pc = "stream"
    /\ Len(received) < MaxChunks
    /\ \E c \in Chunks :
          /\ received' = Append(received, c)
          /\ disk' = [disk EXCEPT !.data = FileAfter(c, @)]
          /\ total_bytes' = CountAfter(c, total_bytes)
    /\ UNCHANGED << pc, mode, rate, volume, pitch, verdict, text, extracted,
                    disk0, handle, fault, sess, success, netCalls, stages,
                    exitCode >>

\* lines 171-174: the stream is exhausted, the with block closes f
SA_Exhausted ==
    /\ pc = "stream"
    /\ handle' = "closed"
    /\ sess' = "Finalized"
    /\ success' = "true"
    /\ pc' = "return"
    /\ UNCHANGED << mode, rate, volume, pitch, verdict, text, extracted, disk,
                    disk0, total_bytes, received, fault, netCalls, stages,
                    exitCode >>

\* Mutant: the file is opened without a with block, the handle stays open
SA_NetFault_NoClose ==
    /\ pc = "stream"
    /\ \E e \in NetworkFaults : fault' = e
    /\ sess' = "Failed"
    /\ pc' = "except_net"
    /\ UNCHANGED << mode, rate, volume, pitch, verdict, text, extracted, disk,
                    disk0, handle, total_bytes, received, success, netCalls,
                    stages, exitCode >>

\* the stream raises NoAudioReceived, UnexpectedResponse or WebSocketError:
\* the with block closes f and control reaches line 177
SA_NetFault ==
    /\ pc = "stream"
    /\ \E e \in NetworkFaults : fault' = e
    /\ handle' = "closed"
    /\ sess' = "Failed"
    /\ pc' = "except_net"
    /\ UNCHANGED << mode, rate, volume, pitch, verdict, text, extracted, disk,
                    disk0, total_bytes, received, success, netCalls, stages,
                    exitCode >>

\* Mutant: the handler reports success after the cleanup
SA_Cleanup_ReturnsTrue ==
    /\ pc = "except_net"
    /\ disk' = Cleanup(disk)
    /\ sess' = "Finalized"
    /\ success' = "true"
    /\ pc' = "return"
    /\ UNCHANGED << mode, rate, volume, pitch, verdict, text, extracted, disk0,
                    handle, total_bytes, received, fault, netCalls, stages,
                    exitCode >>

\* lines 178-182: the file is deleted and False returned
SA_Cleanup ==
    /\ pc = "except_net"
    /\ disk' = Cleanup(disk)
    /\ success' = "false"
    /\ pc' = "return"
    /\ UNCHANGED << mode, rate, volume, pitch, verdict, text, extracted, disk0,
                    handle, total_bytes, received, fault, sess, netCalls,
                    stages, exitCode >>

\* Mutant: every failure deletes the file
SA_Unexpected_Deletes ==
    /\ pc = "stream"
    /\ fault' = "Exception"
    /\ handle' = "closed"
    /\ sess' = "Failed"
    /\ disk' = Cleanup(disk)
    /\ success' = "false"
    /\ pc' = "return"
    /\ UNCHANGED << mode, rate, volume, pitch, verdict, text, extracted,
                    disk0, total_bytes, received, netCalls, stages, exitCode >>

\* the stream (or f.write) raises any other Exception: the with block closes
\* f, lines 183-186 return False and leave the file
SA_Unexpected ==
    /\ pc = "stream"
    /\ fault' = "Exception"
    /\ handle' = "closed"
    /\ sess' = "Failed"
    /\ success' = "false"
    /\ pc' = "return"
    /\ UNCHANGED << mode, rate, volume, pitch, verdict, text, extracted, disk,
                    disk0, total_bytes, received, netCalls, stages, exitCode >>

\* lines 238-239: sys.exit(1) unless the session succeeded
M_Exit ==
    /\ pc = "return"
    /\ exitCode' = IF success = "true" THEN 0 ELSE 1
    /\ pc' = "exit"
    /\ UNCHANGED << mode, rate, volume, pitch, verdict, text, extracted, disk,
                    disk0, handle, total_bytes, received, fault, sess, success,
                    netCalls, stages >>

Next ==
    \/ M_ListVoices
    \/ M_Validate
    \/ M_Extract
    \/ SA_Connect
    \/ SA_Open
    \/ SA_OpenFails
    \/ SA_Chunk
    \/ SA_Exhausted
    \/ SA_NetFault
    \/ SA_Cleanup
    \/ SA_Unexpected
    \/ M_Exit

Spec == Init /\ [][Next]_vars

\* One task runs the program from start to end and every stream is finite:
\* whenever a step is possible, a step is taken.
FairSpec == Spec /\ WF_vars(Next)

-----------------------------------------------------------------------------
(* The validator alone, on every triple of generated parameter strings *)

ValidatorInit ==
    /\ pc = "parse"
    /\ mode = "convert"
    /\ rate \in ParamStrings
    /\ volume \in ParamStrings
    /\ pitch \in ParamStrings
    /\ disk0 = NoFile
    /\ Idle

V_Validate ==
    /\ verdict = "pending"
    /\ verdict' = validate_voice_params(rate, volume, pitch)
    /\ UNCHANGED << pc, mode, rate, volume, pitch, text, extracted, disk, disk0,
                    handle, total_bytes, received, fault, sess, success,
                    netCalls, stages, exitCode >>

ValidatorNext == V_Validate

ValidatorSpec == ValidatorInit /\ [][ValidatorNext]_vars

-----------------------------------------------------------------------------
(* Properties *)

\* stream_audio has returned
Returned == success # "none"

\* what the audio chunks received so far amount to, in arrival order
Expected == Flatten(AudioData(received))

AllOfType(cs, t) == \A i \in 1..Len(cs) : cs[i].type = t

IsPrefix(a, b) == Len(a) <= Len(b) /\ \A i \in 1..Len(a) : a[i] = b[i]

StageOrder == << "validate", "extract", "session" >>

\* C1: a stream of N >= 0 audio chunks and nothing else, ended without a
\* fault: once stream_audio has returned, the file holds the payloads
\* concatenated in arrival order, its length and the byte counter are the sum
\* of the payload lengths, and the return value is True.
C1_AudioConcatenated ==
    (Returned /\ handle # "none" /\ fault = "none" /\ AllOfType(received, "audio"))
    => /\ success = "true"
       /\ disk.exists
       /\ disk.data = Expected
       /\ Len(disk.data) = SumLen(AudioData(received))
       /\ total_bytes = SumLen(AudioData(received))

\* two audio chunks with different payloads were written and the session succeeded
C1_Witness ==
    /\ success = "true"
    /\ Len(received) >= 2
    /\ AllOfType(received, "audio")
    /\ received[1].data # received[2].data

\* C2: after a network/protocol fault, whatever was written before it, the
\* output file does not exist once stream_audio has returned, and the return
\* value is False.
C2_NetworkFaultDeletes ==
    (Returned /\ fault \in NetworkFaults) => (success = "false" /\ ~disk.exists)

\* a network fault after audio bytes had been written, and the function has returned
C2_Witness ==
    /\ Returned
    /\ fault \in NetworkFaults
    /\ total_bytes > 0
    /\ ~disk.exists

\* C3: after an unexpected (non-network) fault of the stream, stream_audio
\* returns False and the file exists, holding exactly the payloads received
\* before the fault, in order.
C3_UnexpectedFaultKeeps ==
    (Returned /\ fault = "Exception")
    => (success = "false" /\ disk.exists /\ disk.data = Expected)

\* an unexpected fault after two audio chunks, the partial file still there
C3_Witness ==
    /\ Returned
    /\ fault = "Exception"
    /\ Len(AudioData(received)) >= 2
    /\ disk.exists
    /\ disk.data # << >>

\* the step consumes an error chunk
ConsumesError ==
    /\ Len(received') = Len(received) + 1
    /\ received'[Len(received')].type = "error"

\* C4: an error chunk is advisory.  Consuming one changes neither the file
\* nor the byte counter and the session goes on consuming; the file always
\* holds the audio received so far, also the audio that came after an error
\* chunk; a stream without a fault returns True, and one made only of error
\* chunks leaves an existing file of zero bytes.
C4_ErrorChunkAdvisory ==
    /\ [][ConsumesError
            => /\ disk' = disk
               /\ total_bytes' = total_bytes
               /\ pc' = "stream"
               /\ sess' = "Streaming"]_vars
    /\ [](pc = "stream"
            => disk.exists /\ disk.data = Expected /\ total_bytes = Len(Expected))
    /\ []((Returned /\ handle # "none" /\ fault = "none")
            => success = "true" /\ disk.exists /\ disk.data = Expected)
    /\ []((Returned /\ fault = "none" /\ received # << >>
                    /\ AllOfType(received, "error"))
            => success = "true" /\ disk.exists /\ disk.data = << >>
               /\ total_bytes = 0)

\* a successful session in which an audio chunk arrived after an error chunk
C4_Witness ==
    /\ success = "true"
    /\ \E i, j \in 1..Len(received) :
          i < j /\ received[i].type = "error" /\ received[j].type = "audio"
    /\ disk.data # << >>

\* C5: in convert mode the stages start in the order validate, extract,
\* session; a stage starts only when the one before succeeded; a failed stage
\* ends the process with exit code 1; a failed validation means no network
\* call and an untouched output path.
C5_StagesInOrder ==
    mode = "convert"
    => /\ IsPrefix(stages, StageOrder)
       /\ Len(stages) >= 2 => verdict = "ok"
       /\ Len(stages) >= 3 => (extracted = "ok" /\ text # << >>)
       /\ verdict \notin {"pending", "ok"}
            => /\ pc = "exit" /\ exitCode = 1
               /\ stages = << "validate" >>
               /\ netCalls = 0 /\ disk = disk0 /\ sess = "Idle"
       /\ extracted = "error"
            => /\ pc = "exit" /\ exitCode = 1
               /\ stages = << "validate", "extract" >>
               /\ netCalls = 0 /\ disk = disk0 /\ sess = "Idle"
       /\ (pc = "exit" /\ success = "false") => exitCode = 1

\* the rate "10%" (no sign) was rejected and the process has exited
C5_Witness ==
    /\ mode = "convert"
    /\ rate = << "1", "0", "%" >>
    /\ verdict = "rate"
    /\ pc = "exit"
    /\ exitCode = 1

\* a sign, one or more digits, the suffix and nothing else
WellFormed(s, suffix) ==
    /\ Len(s) >= 2 + Len(suffix)
    /\ s[1] \in SignClass
    /\ \A i \in 2..(Len(s) - Len(suffix)) : s[i] \in DigitClass
    /\ SubSeq(s, Len(s) - Len(suffix) + 1, Len(s)) = suffix

ValueOf(param) ==
    IF param = "rate" THEN rate ELSE IF param = "volume" THEN volume ELSE pitch

\* C6: validate_voice_params accepts exactly the triples in which rate and
\* volume are a sign, digits and "%" and pitch is a sign, digits and "Hz",
\* with nothing else; when it fails it names a parameter that is malformed.
C6_AcceptsExactlyWellFormed ==
    verdict # "pending"
    => /\ verdict = "ok"
            <=> /\ WellFormed(rate, << "%" >>)
                /\ WellFormed(volume, << "%" >>)
                /\ WellFormed(pitch, << "H", "z" >>)
       /\ verdict # "ok" => ~WellFormed(ValueOf(verdict), PatternSuffix(verdict))

\* What the code accepts: a well-formed value, or one followed by a single
\* newline.
AcceptedByCode(s, suffix) ==
    \/ WellFormed(s, suffix)
    \/ /\ s # << >>
       /\ s[Len(s)] = "\n"
       /\ WellFormed(SubSeq(s, 1, Len(s) - 1), suffix)

\* The validator's verdict on every generated triple: "ok" exactly when each
\* value is well-formed up to one trailing newline, otherwise the first
\* parameter, in the order rate, volume, pitch, that is not.
ValidatorVerdict ==
    verdict # "pending"
    => /\ verdict = "ok"
            <=> /\ AcceptedByCode(rate, << "%" >>)
                /\ AcceptedByCode(volume, << "%" >>)
                /\ AcceptedByCode(pitch, << "H", "z" >>)
       /\ verdict = "rate" => ~AcceptedByCode(rate, << "%" >>)
       /\ verdict = "volume"
            => AcceptedByCode(rate, << "%" >>) /\ ~AcceptedByCode(volume, << "%" >>)
       /\ verdict = "pitch"
            => /\ AcceptedByCode(rate, << "%" >>)
               /\ AcceptedByCode(volume, << "%" >>)
               /\ ~AcceptedByCode(pitch, << "H", "z" >>)

\* C7: the handle is closed on every path out of stream_audio, and on the
\* network fault path it is already closed when the file is about to be
\* deleted.
C7_HandleClosed ==
    /\ Returned => handle # "open"
    /\ (Returned /\ fault # "OSError") => handle = "closed"
    /\ pc = "except_net" => handle = "closed"
    /\ handle = "open" => pc = "stream"

\* a network fault: the function has returned, the handle is closed, the file gone
C7_Witness ==
    /\ pc = "return"
    /\ fault \in NetworkFaults
    /\ handle = "closed"
    /\ disk0.exists
    /\ ~disk.exists

Terminal == {"Finalized", "Failed"}

OriginalEdges ==
    { << "Idle", "Connecting" >>, << "Connecting", "Streaming" >>,
      << "Streaming", "Finalized" >>, << "Streaming", "Failed" >> }

\* the step finalizes on exhaustion of the chunk sequence
OnExhaustion == sess' = "Finalized" => (fault' = "none" /\ success' = "true")

\* C8 as stated: Idle -> Connecting -> Streaming -> Finalized or Streaming ->
\* Failed, Failed entered only from Streaming, Finalized only from Streaming
\* on exhaustion, both terminal, and every started session reaches one.
C8_Original ==
    /\ [][sess' # sess => (<< sess, sess' >> \in OriginalEdges /\ OnExhaustion)]_vars
    /\ (sess = "Connecting") ~> (sess \in Terminal)

\* C8 as amended: as stated, except that Failed is entered from Streaming or,
\* when the output file cannot be opened, from Connecting.
C8_StateMachine ==
    /\ [][sess' # sess
            => /\ << sess, sess' >> \in OriginalEdges \cup {<< "Connecting", "Failed" >>}
               /\ OnExhaustion
               /\ << sess, sess' >> = << "Connecting", "Failed" >>
                    => (fault' = "OSError" /\ handle' = "none")]_vars
    /\ (sess = "Connecting") ~> (sess \in Terminal /\ Returned)

\* the session failed because the output file could not be opened
C8_Witness ==
    /\ sess = "Failed"
    /\ fault = "OSError"
    /\ received = << >>
    /\ pc = "exit"

\* C9: when the output path held a file and the session opened it, none of
\* the old bytes remain after stream_audio has returned: the file holds the
\* audio received (on success and on an unexpected fault) or is absent (on a
\* network fault).
C9_OldBytesGone ==
    (disk0.exists /\ handle # "none" /\ Returned)
    => /\ \A i \in 1..Len(disk.data) : disk.data[i] # "o"
       /\ success = "true" => (disk.exists /\ disk.data = Expected)
       /\ fault = "Exception" => (disk.exists /\ disk.data = Expected)
       /\ fault \in NetworkFaults => ~disk.exists

\* an old file of two bytes, an unexpected fault before any audio: the file
\* is there and empty
C9_Witness ==
    /\ disk0.exists
    /\ Len(disk0.data) = 2
    /\ Returned
    /\ fault = "Exception"
    /\ received = << >>
    /\ disk.exists
    /\ disk.data = << >>

\* C10: in convert mode, when extraction returns an empty string the session
\* is never started, no network call is made, the output path is untouched
\* and the process ends with exit code 0.
C10_EmptyTextExitsZero ==
    (mode = "convert" /\ extracted = "ok" /\ text = << >>)
    => /\ pc = "exit"
       /\ exitCode = 0
       /\ stages = << "validate", "extract" >>
       /\ sess = "Idle"
       /\ netCalls = 0
       /\ handle = "none"
       /\ disk = disk0

\* exit code 0 after an empty extraction, and no output file
C10_Witness ==
    /\ mode = "convert"
    /\ extracted = "ok"
    /\ text = << >>
    /\ exitCode = 0
    /\ ~disk.exists

=============================================================================
